---- MODULE Spec2Model ----
(***************************************************************************)
(* A model of xchainer/gradient_check.cc: the numerical gradient estimator *)
(* CalculateNumericalGradient and the orchestrator CheckBackwardComputation*)
(* together with the kernels and accessors they use.                       *)
(*                                                                         *)
(* Numbers.  Element values are integers.  A float64 buffer holds any      *)
(* integer; a float32 buffer holds only the multiples of F32Quantum, and   *)
(* static_cast<float> rounds to the nearest such multiple.  Division       *)
(* rounds toward zero.  An element whose value the C++ abstract machine    *)
(* leaves indeterminate (a read past the end of a buffer, a read of a      *)
(* buffer a device kernel is still writing) is listed in the array's       *)
(* "indet" set and is carried through the arithmetic.                      *)
(*                                                                         *)
(* Indices are 1-based here: flat index k of the model is flat index k-1   *)
(* of the code, input i is inputs[i-1], output j is ys[j-1].               *)
(***************************************************************************)
EXTENDS Integers, Sequences, FiniteSets, TLC

\* ---------------------------------------------------------------- bounds
MaxIn == 2
MaxOut == 2
MaxLen == 2

\* ------------------------------------------------------------- arithmetic
Dtypes == {"f32", "f64"}

\* Spacing of the float32 grid in the model's integer units.
F32Quantum == 2

Abs(a) == IF a < 0 THEN 0 - a ELSE a

\* static_cast<float>(v): nearest multiple of F32Quantum, ties to the even
\* multiple (round-half-to-even, v >= 0 or v < 0 alike).
ToFloat32(v) ==
    LET lo == (v \div F32Quantum) * F32Quantum
        hi == lo + F32Quantum
        dl == v - lo
        dh == hi - v
    IN  IF dl = 0 THEN v
        ELSE IF dl < dh THEN lo
        ELSE IF dh < dl THEN hi
        ELSE IF (lo \div F32Quantum) % 2 = 0 THEN lo ELSE hi

\* static_cast<T>(value) for the dtype's native type T.
CastTo(dtype, v) == IF dtype = "f32" THEN ToFloat32(v) ELSE v

\* ldata[i] / rdata[i]: quotient rounded toward zero.
Quot(a, b) ==
    IF (a >= 0) = (b > 0) THEN Abs(a) \div Abs(b) ELSE 0 - (Abs(a) \div Abs(b))

RECURSIVE SeqSum(_)
SeqSum(s) == IF s = <<>> THEN 0 ELSE s[1] + SeqSum(Tail(s))

RECURSIVE SeqProd(_)
SeqProd(s) == IF s = <<>> THEN 1 ELSE s[1] * SeqProd(Tail(s))

\* ------------------------------------------------------------------ arrays
\* The shapes of the model: vectors <<n>> and row matrices <<1, n>>.
Shapes == {<<n>> : n \in 1..MaxLen} \cup {<<1, n>> : n \in 2..MaxLen}

TotalSize(shape) == SeqProd(shape)

MkArray(dtype, shape, data) ==
    [dtype |-> dtype, shape |-> shape, data |-> data, indet |-> {}]

Size(a) == Len(a.data)

\* Array::ZerosLike / Array::FullLike
FullLike(a, v) == MkArray(a.dtype, a.shape, [m \in 1..Size(a) |-> CastTo(a.dtype, v)])
ZerosLike(a) == FullLike(a, 0)

\* A scalar read out of a buffer: its value, and whether it is indeterminate.
Scalar(v, indet) == [v |-> IF indet THEN 0 ELSE v, indet |-> indet]


\* ------------------------------------------------------------------- state
VARIABLES
    device,        \* "cpu" or "cuda": GetCurrentDevice()
    entry,         \* the exported function the caller invoked
    inputs,        \* the caller's inputs
    eps,           \* the caller's eps arrays
    grad_outputs,  \* the caller's grad_outputs
    fnNOut,        \* func: the number of outputs it returns
    fnShape,       \* func: the shape of each output
    atol, rtol,    \* CheckBackwardComputation's tolerances
    initial,       \* the caller's arrays as they were at the call
    pc,            \* position in the code
    result,        \* how the call ended: "none" while it runs
    i, k, j,       \* the loop counters i, in_flat_index, j (1-based)
    grad_i, grads, \* the accumulator of input i, the gradients pushed so far
    ys0, ys1,      \* the outputs of the two perturbed evaluations
    denom,         \* the denominator array of line 193
    calls,         \* func invocations made by eval: <<i, k, multiplier>>
    lastXs,        \* the input set handed to func by the latest eval
    fwdCalls,      \* func invocations made by CheckBackwardComputation itself
    nOutputs,      \* outputs.size() in CheckBackwardComputation
    seeded,        \* output nodes whose gradient has been set
    backwardRun,   \* whether Backward has been called
    populated,     \* inputs whose grad() is populated
    analytic,      \* what the engine stored as the inputs' gradients
    backward_grads,\* the vector collected at lines 226-227
    closeness,     \* AllClose(backward_grads[n], numerical_grads[n]) per input
    ci,            \* the counter of the comparison loop (1-based)
    pending,       \* a device-side write has been issued and not synchronized
    hazard,        \* a raw buffer was accessed while a write was pending
    graph          \* edges of the computational graph: <<from node, to node>>

vars == <<device, entry, inputs, eps, grad_outputs, fnNOut, fnShape, atol, rtol,
          initial, pc, result, i, k, j, grad_i, grads, ys0, ys1, denom, calls,
          lastXs, fwdCalls, nOutputs, seeded, backwardRun, populated, analytic,
          backward_grads, closeness, ci, pending, hazard, graph>>

\* The placeholder of an array variable that holds no array yet.
NoArray == MkArray("f32", <<>>, <<>>)

\* ------------------------------------------------------- device asynchrony
\* Synchronize(): cudaDeviceSynchronize() on the cuda device, else nothing.
Synchronize(p) == IF device = "cuda" THEN FALSE ELSE p

\* An array operation (Fill, operator*, func's own operations): on the cuda
\* device the kernel is launched and the host continues.
Launch(p) == IF device = "cuda" THEN TRUE ELSE p

\* A raw-buffer access (data().get()[..]) made with pending-flag p.
RawAccess(h, p) == h \/ p

\* ----------------------------------------------------------------- kernels
\* Subtract: odata[m] = ldata[m] - rdata[m] for m < lhs.total_size().
Subtract(lhs, rhs) ==
    [dtype |-> lhs.dtype, shape |-> lhs.shape,
     data |-> [m \in 1..Size(lhs) |->
                  IF m \in lhs.indet \cup rhs.indet THEN 0
                  ELSE CastTo(lhs.dtype, lhs.data[m] - rhs.data[m])],
     indet |-> lhs.indet \cup (rhs.indet \cap 1..Size(lhs))]

\* Divide: odata[m] = ldata[m] / rdata[m] for m < lhs.total_size(); rdata is
\* read at every such m, also past the end of rhs's buffer.
PastEnd(lhs, rhs) == {m \in 1..Size(lhs) : m > Size(rhs)}

Divide(lhs, rhs) ==
    LET bad == lhs.indet \cup (rhs.indet \cap 1..Size(lhs)) \cup PastEnd(lhs, rhs)
    IN  [dtype |-> lhs.dtype, shape |-> lhs.shape,
         data |-> [m \in 1..Size(lhs) |->
                      IF m \in bad THEN 0
                      ELSE CastTo(lhs.dtype, Quot(lhs.data[m], rhs.data[m]))],
         indet |-> bad]

\* Array operator*: the elementwise product, computed by the array library.
Multiply(x, y) ==
    [dtype |-> x.dtype, shape |-> x.shape,
     data |-> [m \in 1..Size(x) |->
                  IF m \in x.indet \cup y.indet THEN 0
                  ELSE CastTo(x.dtype, x.data[m] * y.data[m])],
     indet |-> x.indet \cup (y.indet \cap 1..Size(x))]

\* Sum / SumImpl: s += data[m] over the whole buffer, read with pending-flag p:
\* a buffer whose kernel may still be running holds indeterminate elements.
Sum(x, p) == Scalar(CastTo(x.dtype, SeqSum(x.data)), x.indet # {} \/ (p /\ Size(x) > 0))

\* VectorDot(x, y) = Sum(x * y): the product is launched, then summed.
VectorDot(x, y, p) == Sum(Multiply(x, y), Launch(p))

\* Get(out, flat_index)
Get(a, m) == Scalar(a.data[m], m \in a.indet)

\* Set(out, flat_index, value): static_cast to the array's native type.
Set(a, m, s) ==
    [a EXCEPT !.data[m] = IF s.indet THEN 0 ELSE CastTo(a.dtype, s.v),
              !.indet = IF s.indet THEN @ \cup {m} ELSE @ \ {m}]

\* Scalar + Scalar
Plus(s, t) == Scalar(s.v + t.v, s.indet \/ t.indet)


\* -------------------------------------------------- the caller's arguments
\* The shapes in a fixed order, so that consecutive inputs differ in shape.
ShapeList ==
    [n \in 1..(2 * MaxLen - 1) |-> IF n <= MaxLen THEN <<n>> ELSE <<1, n - MaxLen + 1>>]

ShapeIndex(shape) == CHOOSE n \in DOMAIN ShapeList : ShapeList[n] = shape

NextShape(shape, d) == ShapeList[((ShapeIndex(shape) - 1 + d) % Len(ShapeList)) + 1]

OtherDtype(dtype) == IF dtype = "f32" THEN "f64" ELSE "f32"

\* Input n of the caller: every element differs, all are float32 values.
InputArray(dtype, shape, n) ==
    MkArray(dtype, shape, [m \in 1..TotalSize(shape) |-> 4 * n + 2 * m])

\* An eps array: base, base + 2, ...; never zero.
EpsArray(dtype, shape, base) ==
    MkArray(dtype, shape, [m \in 1..TotalSize(shape) |-> CastTo(dtype, base + 2 * (m - 1))])

\* A grad_outputs array, shaped like func's outputs.
GradOutputArray(dtype, shape, n) ==
    MkArray(dtype, shape, [m \in 1..TotalSize(shape) |-> 2 * (n + m - 1)])

\* The eps values a caller may pass for a dtype: float32 holds only its grid.
EpsBases(dtype) == IF dtype = "f32" THEN {2} ELSE {2, 3}

\* How the caller's eps may deviate from the inputs.
EpsDefects(nin) ==
    {<<"none", 0>>, <<"long", 0>>}
        \cup {<<"short", 0>> : n \in 1..nin}
        \cup {<<"shape", n>> : n \in 1..nin}
        \cup {<<"dtype", n>> : n \in 1..nin}

MakeInputs(nin, dtype, shape) ==
    [n \in 1..nin |-> InputArray(dtype, NextShape(shape, n - 1), n)]

MakeEps(ins, dtype, base, defect) ==
    LET count == CASE defect[1] = "short" -> Len(ins) - 1
                   [] defect[1] = "long" -> Len(ins) + 1
                   [] OTHER -> Len(ins)
        shapeOf(n) == IF n > Len(ins) THEN ShapeList[1]
                      ELSE IF defect = <<"shape", n>> THEN NextShape(ins[n].shape, 1)
                      ELSE ins[n].shape
        dtypeOf(n) == IF defect = <<"dtype", n>> THEN OtherDtype(dtype) ELSE dtype
    IN  [n \in 1..count |-> EpsArray(dtypeOf(n), shapeOf(n), base)]

\* ------------------------------------------------------------------- func
SumAll(xs) == SeqSum([n \in 1..Len(xs) |-> SeqSum(xs[n].data)])

FuncDtype(xs) == IF xs = <<>> THEN "f32" ELSE xs[1].dtype

\* The function under test: fnNOut outputs of shape fnShape, element m of
\* output n being (n + m) times the sum of all input elements.
Func(xs) ==
    [n \in 1..fnNOut |->
        MkArray(FuncDtype(xs), fnShape,
                [m \in 1..TotalSize(fnShape) |-> CastTo(FuncDtype(xs), (n + m) * SumAll(xs))])]

\* The derivative of sum_n VectorDot(Func(xs)[n], grad_outputs[n]) by any one
\* input element, which is what a correct backward pass stores.
ExactDerivative ==
    SeqSum([n \in 1..Len(grad_outputs) |->
               IF n > fnNOut THEN 0
               ELSE SeqSum([m \in 1..Size(grad_outputs[n]) |->
                               (n + m) * grad_outputs[n].data[m]])])

\* ------------------------------------------------------------------- Init
\* The state at the call.  The inputs share one dtype (line 172 takes that of
\* inputs[0] for all of them) and func's outputs have it too; grad_outputs
\* are shaped like func's outputs, as operator* in VectorDot needs; eps
\* matches the inputs or deviates from them in one of the ways lines 158-168
\* test for.  The numbers of inputs, of eps arrays, of func's outputs and of
\* grad_outputs vary independently.
Init ==
    /\ device \in {"cpu", "cuda"}
    /\ entry \in {"calc", "check"}
    /\ \E dtype \in Dtypes, nin \in 0..MaxIn, shape \in Shapes :
         /\ inputs = MakeInputs(nin, dtype, shape)
         /\ \E base \in EpsBases(dtype), defect \in EpsDefects(nin) :
              eps = MakeEps(inputs, dtype, base, defect)
         /\ fnNOut \in 0..MaxOut
         /\ fnShape \in Shapes
         /\ \E nout \in 0..MaxOut :
              grad_outputs = [n \in 1..nout |-> GradOutputArray(dtype, fnShape, n)]
    /\ atol \in IF entry = "check" THEN {0, 1} ELSE {0}
    /\ rtol = atol
    /\ initial = [inputs |-> inputs, eps |-> eps, grad_outputs |-> grad_outputs]
    /\ pc = IF entry = "calc" THEN "validate" ELSE "forward"
    /\ result = "none"
    /\ i = 1 /\ k = 1 /\ j = 1 /\ ci = 1
    /\ grad_i = NoArray /\ denom = NoArray
    /\ grads = <<>> /\ ys0 = <<>> /\ ys1 = <<>>
    /\ calls = <<>> /\ lastXs = <<>>
    /\ fwdCalls = 0 /\ nOutputs = 0
    /\ seeded = {} /\ backwardRun = FALSE /\ populated = {}
    /\ analytic = <<>> /\ backward_grads = <<>> /\ closeness = <<>>
    /\ pending = FALSE /\ hazard = FALSE
    /\ graph = {}


\* ------------------------------------------------------------ frame groups
args == <<device, entry, inputs, eps, grad_outputs, fnNOut, fnShape, atol, rtol, initial>>
loopState == <<i, k, j, grad_i, grads, ys0, ys1, denom>>
evalState == <<calls, lastXs>>
checkState == <<fwdCalls, nOutputs, seeded, backwardRun, populated, analytic, backward_grads>>
compareState == <<closeness, ci>>
syncState == <<pending, hazard>>

\* ------------------------------------------------- CalculateNumericalGradient
\* EpsError without the dtype comparison of lines 166-168.
EpsErrorShapeOnly(ins, es) ==
    IF Len(es) # Len(ins) THEN "invalid_eps_count"
    ELSE IF \E n \in 1..Len(ins) : ins[n].shape # es[n].shape THEN "invalid_eps_shape"
    ELSE "none"

\* Lines 158-170: the first failed check, or "none".
EpsError(ins, es) ==
    IF Len(es) # Len(ins) THEN "invalid_eps_count"
    ELSE LET bad == {n \in 1..Len(ins) :
                        ins[n].shape # es[n].shape \/ ins[n].dtype # es[n].dtype}
         IN  IF bad = {} THEN "none"
             ELSE LET n == CHOOSE b \in bad : \A c \in bad : b <= c
                  IN  IF ins[n].shape # es[n].shape THEN "invalid_eps_shape"
                      ELSE "invalid_eps_dtype"

InvalidArgument ==
    {"invalid_eps_count", "invalid_eps_shape", "invalid_eps_dtype", "invalid_output_count"}

CalcValidate ==
    /\ pc = "validate"
    /\ IF EpsError(inputs, eps) # "none"
       THEN pc' = "done" /\ result' = EpsError(inputs, eps)
       ELSE pc' = "dtype" /\ result' = result
    /\ UNCHANGED <<args, loopState, evalState, checkState, compareState, syncState, graph>>

\* Line 172: inputs[0] of an empty vector is undefined behaviour: the call
\* may crash, or read some dtype, which is then never used.
ReadDtype ==
    /\ pc = "dtype"
    /\ \/ pc' = "loop_i" /\ result' = result
       \/ inputs = <<>> /\ pc' = "done" /\ result' = "crash"
    /\ UNCHANGED <<args, loopState, evalState, checkState, compareState, syncState, graph>>

\* Dtype dtype = inputs[0].dtype()
FirstDtype == FuncDtype(inputs)

\* Lines 177-179: the copy of the inputs with one element perturbed.
Perturbed(ins, i_in, in_flat_index, eps_scalar, multiplier) ==
    LET xs == ins
        delta == Scalar(CastTo(FirstDtype, ToFloat32(eps_scalar.v) * multiplier),
                        eps_scalar.indet)
    IN  [xs EXCEPT ![i_in] =
            Set(xs[i_in], in_flat_index, Plus(Get(xs[i_in], in_flat_index), delta))]

\* The graph the copy and func's outputs of one evaluation are part of: each
\* copied array is recorded as derived from the array it was copied from
\* (lines 175-177), each output of func as derived from func's arguments.
EvalEdges(tag) ==
    {<<<<"xs", tag, n>>, <<"in", 0, n>>>> : n \in 1..Len(inputs)}
        \cup {<<<<"ys", tag, m>>, <<"xs", tag, n>>>> : m \in 1..fnNOut, n \in 1..Len(inputs)}

EvalNode(node) == node[1] \in {"xs", "ys"}

\* Lines 184-186
BeginInput ==
    /\ pc = "loop_i" /\ i <= Len(inputs)
    /\ grad_i' = ZerosLike(inputs[i])
    /\ k' = 1
    /\ pending' = Launch(pending)
    /\ pc' = "loop_k"
    /\ UNCHANGED <<args, i, j, grads, ys0, ys1, denom, evalState, checkState,
                   compareState, hazard, graph, result>>

\* Lines 188-190: Get(eps), then eval with multiplier -1.
EvalMinus ==
    /\ pc = "loop_k" /\ k <= Size(grad_i)
    /\ LET xs == Perturbed(inputs, i, k, Get(eps[i], k), -1)
       IN  /\ lastXs' = xs
           /\ ys0' = Func(xs)
    /\ ys1' = <<>>
    /\ calls' = Append(calls, <<i, k, -1>>)
    /\ hazard' = RawAccess(hazard, pending)
    /\ pending' = Launch(pending)
    /\ graph' = {e \in graph : ~EvalNode(e[1])} \cup EvalEdges(0)
    /\ pc' = "eval_plus"
    /\ UNCHANGED <<args, i, k, j, grad_i, grads, denom, checkState, compareState, result>>

\* Line 191: eval with multiplier 1.
EvalPlus ==
    /\ pc = "eval_plus"
    /\ LET xs == Perturbed(inputs, i, k, Get(eps[i], k), 1)
       IN  /\ lastXs' = xs
           /\ ys1' = Func(xs)
    /\ calls' = Append(calls, <<i, k, 1>>)
    /\ hazard' = RawAccess(hazard, pending)
    /\ pending' = Launch(pending)
    /\ graph' = graph \cup EvalEdges(1)
    /\ pc' = "denom"
    /\ UNCHANGED <<args, i, k, j, grad_i, grads, ys0, denom, checkState, compareState, result>>

\* Line 193: FullLike(eps[i], eps[i][k]) * FullLike(eps[i], 2)
Denominator(e, in_flat_index) ==
    Multiply(FullLike(e, Get(e, in_flat_index).v), FullLike(e, CastTo(FirstDtype, 2)))

MakeDenom ==
    /\ pc = "denom"
    /\ denom' = Denominator(eps[i], k)
    /\ hazard' = RawAccess(hazard, pending)
    /\ pending' = Launch(pending)
    /\ j' = 1
    /\ pc' = "loop_j"
    /\ UNCHANGED <<args, i, k, grad_i, grads, ys0, ys1, evalState, checkState,
                   compareState, graph, result>>

\* Line 197: the contribution of output n, summed with pending-flag p.
Contribution(n, p) ==
    VectorDot(Divide(Subtract(ys1[n], ys0[n]), denom), grad_outputs[n], p)

\* Lines 195-199: one pass of the loop over the outputs.
ProjectOutput ==
    /\ pc = "loop_j" /\ j <= Len(grad_outputs)
    /\ \/ \* ys1.at(j) throws std::out_of_range
          /\ j > Len(ys1)
          /\ pc' = "done" /\ result' = "out_of_range"
          /\ UNCHANGED <<j, grad_i, syncState>>
       \/ \* Divide read past the end of denom's buffer: the read may fault
          /\ j <= Len(ys1)
          /\ PastEnd(ys1[j], denom) # {}
          /\ pc' = "done" /\ result' = "crash"
          /\ pending' = Synchronize(pending)
          /\ UNCHANGED <<j, grad_i, hazard>>
       \/ /\ j <= Len(ys1)
          /\ LET synced == Synchronize(pending)
                 g == Contribution(j, synced)
             IN  /\ grad_i' = Set(grad_i, k, Plus(Get(grad_i, k), g))
                 /\ pending' = Launch(synced)
                 /\ hazard' = RawAccess(hazard, Launch(synced))
          /\ j' = j + 1
          /\ UNCHANGED <<pc, result>>
    /\ UNCHANGED <<args, i, k, grads, ys0, ys1, denom, evalState, checkState,
                   compareState, graph>>

\* NextElement advancing the flat index by two.
NextElementSkipping ==
    /\ pc = "loop_j" /\ j > Len(grad_outputs)
    /\ k' = k + 2
    /\ pc' = "loop_k"
    /\ UNCHANGED <<args, i, j, grad_i, grads, ys0, ys1, denom, evalState, checkState,
                   compareState, syncState, graph, result>>

\* Line 188: ++in_flat_index once the loop over the outputs is over.
NextElement ==
    /\ pc = "loop_j" /\ j > Len(grad_outputs)
    /\ k' = k + 1
    /\ pc' = "loop_k"
    /\ UNCHANGED <<args, i, j, grad_i, grads, ys0, ys1, denom, evalState, checkState,
                   compareState, syncState, graph, result>>

\* Line 202: grads.push_back(grad_i), then ++i.
PushGrad ==
    /\ pc = "loop_k" /\ k > Size(grad_i)
    /\ grads' = Append(grads, grad_i)
    /\ i' = i + 1
    /\ pc' = "loop_i"
    /\ UNCHANGED <<args, k, j, grad_i, ys0, ys1, denom, evalState, checkState,
                   compareState, syncState, graph, result>>


\* AllClose(a, b, atol, rtol): |a - b| <= atol + rtol * |b| at every element.
AllClose(a, b, at, rt) ==
    \A m \in 1..Size(a) : Abs(a.data[m] - b.data[m]) <= at + rt * Abs(b.data[m])

\* The results AllClose can give: an indeterminate element can make it either.
AllCloseOutcomes(a, b, at, rt) ==
    IF a.indet \cup b.indet = {} THEN {AllClose(a, b, at, rt)} ELSE BOOLEAN

\* Line 205: return grads.  CheckBackwardComputation goes on at line 230 with
\* numerical_grads = grads; what AllClose will answer for each input is fixed
\* by the two vectors.
ReturnGrads ==
    /\ pc = "loop_i" /\ i > Len(inputs)
    /\ IF entry = "calc"
       THEN /\ pc' = "done" /\ result' = "ok"
            /\ UNCHANGED compareState
       ELSE /\ pc' = "compare" /\ result' = result
            /\ ci' = 1
            /\ closeness' \in
                 {c \in [1..Len(inputs) -> BOOLEAN] :
                     \A n \in 1..Len(inputs) :
                        c[n] \in AllCloseOutcomes(backward_grads[n], grads[n], atol, rtol)}
    /\ UNCHANGED <<args, loopState, evalState, checkState, syncState, graph>>

\* --------------------------------------------------- CheckBackwardComputation
\* The graph of the forward pass: func's outputs derive from the inputs, the
\* identity's outputs from func's outputs (lines 71-78).
ForwardEdges ==
    {<<<<"out", 0, m>>, <<"in", 0, n>>>> : m \in 1..fnNOut, n \in 1..Len(inputs)}
        \cup {<<<<"id", 0, m>>, <<"out", 0, m>>>> : m \in 1..fnNOut}

\* Line 212: outputs = Identity(func(inputs)); Identity copies each buffer with
\* MemoryCopy right after func has launched its operations.
CheckForward ==
    /\ pc = "forward"
    /\ fwdCalls' = fwdCalls + 1
    /\ nOutputs' = Len(Func(inputs))
    /\ pending' = Launch(pending)
    /\ hazard' = IF nOutputs' > 0 THEN RawAccess(hazard, Launch(pending)) ELSE hazard
    /\ graph' = graph \cup ForwardEdges
    /\ pc' = "count"
    /\ UNCHANGED <<args, loopState, evalState, seeded, backwardRun, populated, analytic,
                   backward_grads, compareState, result>>

\* CheckOutputCount with the seeding loop of lines 220-222 run before the test.
CheckOutputCountAfterSeeding ==
    /\ pc = "count"
    /\ seeded' = {n \in 1..nOutputs : n <= Len(grad_outputs)}
    /\ IF nOutputs # Len(grad_outputs)
       THEN pc' = "done" /\ result' = "invalid_output_count"
       ELSE pc' = "seed" /\ result' = result
    /\ UNCHANGED <<args, loopState, evalState, fwdCalls, nOutputs, backwardRun, populated,
                   analytic, backward_grads, compareState, syncState, graph>>

\* Lines 215-218
CheckOutputCount ==
    /\ pc = "count"
    /\ IF nOutputs # Len(grad_outputs)
       THEN pc' = "done" /\ result' = "invalid_output_count"
       ELSE pc' = "seed" /\ result' = result
    /\ UNCHANGED <<args, loopState, evalState, checkState, compareState, syncState, graph>>

\* Lines 219-222: set_grad(grad_outputs[n]) on every output's node.
SeedGrads ==
    /\ pc = "seed"
    /\ seeded' = 1..nOutputs
    /\ pc' = "backward"
    /\ UNCHANGED <<args, loopState, evalState, fwdCalls, nOutputs, backwardRun, populated,
                   analytic, backward_grads, compareState, syncState, graph, result>>

\* What the engine stores for one input: the exact derivative, or (a wrong
\* backward function) its negation.
EngineGrad(a, kind) ==
    FullLike(a, IF kind = "exact" THEN ExactDerivative ELSE 0 - ExactDerivative)

\* Line 224: Backward(outputs[0]).  The engine populates the gradient of the
\* inputs it reaches.  outputs[0] of an empty vector is undefined behaviour:
\* the call may crash instead.
RunBackward ==
    /\ pc = "backward"
    /\ backwardRun' = TRUE
    /\ \/ /\ \E reached \in SUBSET (1..Len(inputs)), kind \in {"exact", "negated"} :
               /\ populated' = reached
               /\ analytic' = [n \in 1..Len(inputs) |->
                                 IF n \in reached THEN EngineGrad(inputs[n], kind)
                                 ELSE NoArray]
          /\ pc' = "collect" /\ result' = result
       \/ /\ nOutputs = 0
          /\ pc' = "done" /\ result' = "crash"
          /\ UNCHANGED <<populated, analytic>>
    /\ UNCHANGED <<args, loopState, evalState, fwdCalls, nOutputs, seeded, backward_grads,
                   compareState, syncState, graph>>

\* *input.grad(): the stored gradient, which must be there.
HasGrad(n) == n \in populated

\* CollectGrads taking a zero gradient for an input that has none.
CollectGradsDefaultingToZero ==
    /\ pc = "collect"
    /\ backward_grads' = [n \in 1..Len(inputs) |->
                            IF HasGrad(n) THEN analytic[n] ELSE ZerosLike(inputs[n])]
    /\ pc' = "validate" /\ result' = result
    /\ UNCHANGED <<args, loopState, evalState, fwdCalls, nOutputs, seeded, backwardRun,
                   populated, analytic, compareState, syncState, graph>>

\* Lines 226-228: collect *input.grad() of every input, then call
\* CalculateNumericalGradient.
CollectGrads ==
    /\ pc = "collect"
    /\ IF \A n \in 1..Len(inputs) : HasGrad(n)
       THEN /\ backward_grads' = analytic
            /\ pc' = "validate" /\ result' = result
       ELSE /\ backward_grads' = backward_grads
            /\ pc' = "done" /\ result' = "missing_grad"
    /\ UNCHANGED <<args, loopState, evalState, fwdCalls, nOutputs, seeded, backwardRun,
                   populated, analytic, compareState, syncState, graph>>

\* CompareGrads comparing the first input only.
CompareGradsFirstOnly ==
    /\ pc = "compare" /\ ci <= Len(backward_grads)
    /\ IF ci = 1 /\ ~closeness[ci]
       THEN pc' = "done" /\ result' = "assertion" /\ ci' = ci
       ELSE pc' = pc /\ result' = result /\ ci' = ci + 1
    /\ UNCHANGED <<args, loopState, evalState, checkState, closeness, syncState, graph>>

\* Lines 230-234: one pass of the comparison loop.
CompareGrads ==
    /\ pc = "compare" /\ ci <= Len(backward_grads)
    /\ IF ~closeness[ci]
       THEN pc' = "done" /\ result' = "assertion" /\ ci' = ci
       ELSE pc' = pc /\ result' = result /\ ci' = ci + 1
    /\ UNCHANGED <<args, loopState, evalState, checkState, closeness, syncState, graph>>

\* Line 235: the loop is over, the call returns.
CheckReturn ==
    /\ pc = "compare" /\ ci > Len(backward_grads)
    /\ pc' = "done" /\ result' = "ok"
    /\ UNCHANGED <<args, loopState, evalState, checkState, compareState, syncState, graph>>

\* ------------------------------------------------------------ specification
Next ==
    \/ CalcValidate
    \/ ReadDtype
    \/ BeginInput
    \/ EvalMinus
    \/ EvalPlus
    \/ MakeDenom
    \/ ProjectOutput
    \/ NextElement
    \/ PushGrad
    \/ ReturnGrads
    \/ CheckForward
    \/ CheckOutputCount
    \/ SeedGrads
    \/ RunBackward
    \/ CollectGrads
    \/ CompareGrads
    \/ CheckReturn

Spec == Init /\ [][Next]_vars


\* ------------------------------------------------------------------ claims
EpsErrors == {"invalid_eps_count", "invalid_eps_shape", "invalid_eps_dtype"}

\* The positions inside CalculateNumericalGradient after its validation.
EstimatorBody == {"dtype", "loop_i", "loop_k", "eval_plus", "denom", "loop_j"}

\* The eps arrays do not match the inputs, as C1 and C2 put it.
EpsMismatch ==
    \/ Len(eps) # Len(inputs)
    \/ \E n \in 1..Len(inputs) :
          n <= Len(eps) /\ (eps[n].shape # inputs[n].shape \/ eps[n].dtype # inputs[n].dtype)

\* C1: when the number of eps arrays differs from the number of inputs, or
\* some eps[i] differs from inputs[i] in shape or dtype, the estimator never
\* gets past its validation: func is never invoked by it, no gradient array
\* is built or returned, and the call ends with an invalid-argument error
\* about eps (under CheckBackwardComputation the call may also have ended
\* before the estimator was entered).
C1_EpsMismatchRejected ==
    EpsMismatch =>
        /\ calls = <<>>
        /\ grads = <<>>
        /\ pc \notin EstimatorBody /\ pc # "compare"
        /\ result # "ok" /\ result # "assertion"
        /\ (pc = "done" /\ entry = "calc") => result \in EpsErrors
        /\ (pc = "done" /\ entry = "check") =>
              result \in EpsErrors \cup {"invalid_output_count", "missing_grad", "crash"}

C1_Witness ==
    /\ entry = "calc" /\ pc = "done" /\ result = "invalid_eps_dtype"
    /\ Len(eps) = Len(inputs) /\ Len(inputs) = 2
    /\ eps[1].dtype = inputs[1].dtype /\ eps[2].dtype # inputs[2].dtype
    /\ calls = <<>> /\ grads = <<>>

\* C2 as stated: when CheckBackwardComputation fails with an invalid-argument
\* error, func has not been invoked, no output gradient has been seeded and
\* the engine has not been triggered.
C2_NoWorkBeforeInvalidArgument ==
    (entry = "check" /\ pc = "done" /\ result \in InvalidArgument) =>
        /\ fwdCalls = 0 /\ calls = <<>>
        /\ seeded = {}
        /\ ~backwardRun

\* C2 amended: when CheckBackwardComputation fails with an invalid-argument
\* error, func has been invoked exactly once (the forward pass on the
\* original inputs) and never on a perturbed copy, and no numerical gradient
\* has been built; a mismatch of the output count is found before any output
\* gradient is seeded and before the engine is triggered, a mismatch of eps
\* only after every output gradient has been seeded and the engine has run.
C2_InvalidArgumentAfterForwardOnly ==
    (entry = "check" /\ pc = "done" /\ result \in InvalidArgument) =>
        /\ fwdCalls = 1 /\ calls = <<>> /\ grads = <<>>
        /\ result = "invalid_output_count" => (seeded = {} /\ ~backwardRun)
        /\ result \in EpsErrors => (seeded = 1..nOutputs /\ backwardRun)

C2_Witness ==
    /\ entry = "check" /\ pc = "done" /\ result = "invalid_eps_shape"
    /\ fwdCalls = 1 /\ backwardRun /\ seeded # {}
    /\ calls = <<>>

\* What AllClose answers for input n once both gradient vectors exist.
CloseAt(n) ==
    IF backward_grads[n].indet \cup grads[n].indet = {}
    THEN AllClose(backward_grads[n], grads[n], atol, rtol)
    ELSE closeness[n]

\* The comparison of CheckBackwardComputation was reached and the call ended.
Compared == entry = "check" /\ pc = "done" /\ result \in {"ok", "assertion"}

\* C3: with valid arguments and every input gradient populated, the call
\* raises "too large errors" exactly when AllClose is false for at least one
\* input, whichever it is, and returns normally exactly when it is true for
\* every input; a call that got as far as the comparison ends in one of the
\* two ways.
C3_AssertionIffSomeInputNotClose ==
    /\ Compared =>
          /\ ~EpsMismatch /\ nOutputs = Len(grad_outputs)
          /\ populated = 1..Len(inputs)
          /\ Len(grads) = Len(inputs) /\ Len(backward_grads) = Len(inputs)
          /\ (result = "assertion") <=> (\E n \in 1..Len(inputs) : ~CloseAt(n))
          /\ (result = "ok") <=> (\A n \in 1..Len(inputs) : CloseAt(n))
    /\ pc = "compare" => result = "none"

C3_Witness ==
    /\ Compared /\ device = "cpu" /\ result = "assertion"
    /\ Len(inputs) = 2
    /\ grads[1].indet = {} /\ grads[2].indet = {}
    /\ CloseAt(1) /\ ~CloseAt(2)


\* The input set C4 says eval hands to func for (input n, flat index m, sign
\* sg): the caller's inputs with that one element moved by sg * eps[n][m].
NudgedInputs(n, m, sg) ==
    [initial.inputs EXCEPT ![n].data[m] = @ + sg * initial.eps[n].data[m]]

\* C4: the caller's inputs, eps and grad_outputs hold their initial values at
\* every point, and the input set of the evaluation for (i, k, s) equals the
\* original inputs except for element k of input i, which is the original
\* plus s * eps[i][k].
C4_PerturbationHermetic ==
    /\ inputs = initial.inputs
    /\ eps = initial.eps
    /\ grad_outputs = initial.grad_outputs
    /\ calls # <<>> =>
          LET c == calls[Len(calls)]
          IN  lastXs = NudgedInputs(c[1], c[2], c[3])

\* The estimator has returned its gradients.
Estimated ==
    \/ entry = "calc" /\ pc = "done" /\ result = "ok"
    \/ entry = "check" /\ (pc = "compare" \/ Compared)

\* The gradient element C5 states, computed from func and the caller's
\* arguments alone, in the arithmetic of the arrays' dtype: the sum over the
\* outputs of the dot product of the central-difference quotient with
\* grad_outputs[n].
ExactQuotient(y1, y0, e) ==
    [m \in 1..Size(y1) |->
        CastTo(y1.dtype, Quot(y1.data[m] - y0.data[m], CastTo(y1.dtype, 2 * e)))]

StatedGradient(n, m) ==
    LET e == initial.eps[n].data[m]
        y0 == Func(NudgedInputs(n, m, -1))
        y1 == Func(NudgedInputs(n, m, 1))
    IN  SeqSum([o \in 1..Len(grad_outputs) |->
                   SeqSum([x \in 1..Size(y1[o]) |->
                              CastTo(y1[o].dtype,
                                     ExactQuotient(y1[o], y0[o], e)[x]
                                        * grad_outputs[o].data[x])])])

\* C5: the estimator returns one gradient per input, in order and shaped like
\* the input, and element k of gradient i is the sum over the outputs j of
\* VectorDot((ys1[j] - ys0[j]) / (2 * eps[i][k]), grad_outputs[j]) with ys0,
\* ys1 the outputs for element k of input i moved by -eps[i][k], +eps[i][k].
C5_GradientIsProjectedCentralDifference ==
    Estimated =>
        /\ Len(grads) = Len(inputs)
        /\ \A n \in 1..Len(inputs) :
              /\ grads[n].shape = inputs[n].shape
              /\ grads[n].dtype = inputs[n].dtype
              /\ grads[n].indet = {}
              /\ \A m \in 1..Size(inputs[n]) : grads[n].data[m] = StatedGradient(n, m)

\* The estimator has called func for every element, in order.
RECURSIVE ElementCalls(_, _)
ElementCalls(n, m) ==
    IF m > Size(inputs[n]) THEN <<>>
    ELSE <<<<n, m, -1>>, <<n, m, 1>>>> \o ElementCalls(n, m + 1)

RECURSIVE CallsFrom(_)
CallsFrom(n) ==
    IF n > Len(inputs) THEN <<>> ELSE ElementCalls(n, 1) \o CallsFrom(n + 1)

IsPrefix(s, t) == Len(s) <= Len(t) /\ \A n \in 1..Len(s) : s[n] = t[n]

\* C6: once the engine has run and some input has no populated gradient, the
\* call fails with the propagated error: no gradient is substituted for the
\* missing one, the estimator and the comparison are never entered, and the
\* call never returns normally.
C6_MissingGradientPropagates ==
    (entry = "check" /\ backwardRun /\ result # "crash"
        /\ \E n \in 1..Len(inputs) : n \notin populated) =>
        /\ pc \in {"collect", "done"}
        /\ pc = "done" => result = "missing_grad"
        /\ backward_grads = <<>>
        /\ calls = <<>> /\ grads = <<>> /\ closeness = <<>>

C6_Witness ==
    /\ entry = "check" /\ pc = "done" /\ result = "missing_grad"
    /\ Len(inputs) = 2 /\ populated = {1}
    /\ ~EpsMismatch /\ nOutputs = Len(grad_outputs)

\* The nodes a node reaches along the edges of the graph.
RECURSIVE ReachFrom(_, _)
ReachFrom(nodes, steps) ==
    LET more == nodes \cup {e[2] : e \in {f \in graph : f[1] \in nodes}}
    IN  IF steps = 0 \/ more = nodes THEN nodes ELSE ReachFrom(more, steps - 1)

\* C7: the arrays of a perturbed evaluation share no graph node or edge with
\* the caller's inputs: no path leads from a perturbed copy, or from an
\* output func computed on it, back to an original input.
C7_PerturbedCopiesIndependent ==
    \A e \in graph :
        EvalNode(e[1]) =>
            \A node \in ReachFrom({e[1]}, Cardinality(graph)) : node[1] # "in"

\* C8: no raw element buffer is accessed while a device-side write issued
\* earlier is still pending: a Synchronize call lies between every
\* asynchronous array operation and the next raw-buffer access.
C8_SynchronizedBeforeRawAccess == ~hazard

\* C9: the Divide forming the quotient of output j has a denominator with as
\* many elements as ys1[j] - ys0[j], so that no element is read outside the
\* denominator's buffer.
C9_DenominatorCoversOutput ==
    (pc = "loop_j" /\ j <= Len(grad_outputs) /\ j <= Len(ys1)) =>
        /\ Size(denom) = Size(Subtract(ys1[j], ys0[j]))
        /\ PastEnd(Subtract(ys1[j], ys0[j]), denom) = {}

\* C10: the estimator calls func for every pair (input i, flat index k) once
\* with -eps and then once with +eps, inputs and elements in increasing
\* order: at every point the calls made are a prefix of that sequence, and a
\* successful call has made all of it, twice the number of input elements,
\* whatever the number of outputs.
C10_TwoCallsPerElementInOrder ==
    /\ IsPrefix(calls, CallsFrom(1))
    /\ Estimated =>
          /\ calls = CallsFrom(1)
          /\ Len(calls) = 2 * SeqSum([n \in 1..Len(inputs) |-> TotalSize(inputs[n].shape)])

C10_Witness ==
    /\ entry = "calc" /\ pc = "done" /\ result = "ok"
    /\ Len(inputs) = 2 /\ Size(inputs[1]) # Size(inputs[2])
    /\ fnNOut = 2 /\ Len(grad_outputs) = 2
    /\ Len(calls) = 6

====
